---- MODULE Spec2Model ----
(***************************************************************************)
(* Stock prediction portal: the offline training script                    *)
(* (prediction_portal/model_builder.py) and the two request handlers of    *)
(* prediction_portal/predictor/views.py (StockPredictionView.get and       *)
(* HistoricalChartView.get).                                               *)
(*                                                                         *)
(* Floating-point numbers are modelled as exact rationals in lowest terms  *)
(* ([t |-> "num", n, d], d > 0), with the IEEE special values nan, inf and *)
(* -inf that numpy produces on a division by zero.  None is Python's None. *)
(***************************************************************************)
EXTENDS Integers, Sequences, FiniteSets, TLC

\* ------------------------------------------------------------------------
\* Program constants
\* ------------------------------------------------------------------------
LOOKBACK_DAYS == 60
FALLBACK_RATE == 83
MA_SHORT == 100
MA_LONG == 200
CHART_DAYS == 300
CONF_CAP == 98
CONF_BASE == 50
HTTP_200_OK == 200
HTTP_400_BAD_REQUEST == 400
HTTP_404_NOT_FOUND == 404
HTTP_500_INTERNAL_SERVER_ERROR == 500

\* ------------------------------------------------------------------------
\* Bounds of the model
\* ------------------------------------------------------------------------
\* rows a price-history fetch may return beyond the 300 charted ones
MaxPad == 1
\* the predictor's normalized output ranges over -MaxPred..MaxPred (and more)
MaxPred == 2
\* create_dataset is exercised on series of 0..MaxLen points ...
MaxLen == 6
\* ... with look_back in 0..MaxLook (and the default LOOKBACK_DAYS)
MaxLook == 3

\* ------------------------------------------------------------------------
\* Numbers
\* ------------------------------------------------------------------------
None == [t |-> "None"]
NaN == [t |-> "nan"]
PosInf == [t |-> "inf"]
NegInf == [t |-> "-inf"]

Abs(k) == IF k < 0 THEN 0 - k ELSE k

RECURSIVE GCD(_, _)
GCD(a, b) == IF b = 0 THEN a ELSE GCD(b, a % b)

\* the rational n/d (d # 0) in lowest terms with a positive denominator
Rat(n, d) ==
    LET s == IF d < 0 THEN 0 - 1 ELSE 1
        g == GCD(Abs(n), Abs(d))
    IN  [t |-> "num", n |-> (s * n) \div g, d |-> (s * d) \div g]

Num(k) == [t |-> "num", n |-> k, d |-> 1]

IsNum(a) == a.t = "num"
\* np.isnan
isnan(a) == a.t = "nan"
\* sign of an extended number that is not nan
Sign(a) ==
    IF a.t = "inf" THEN 1
    ELSE IF a.t = "-inf" THEN 0 - 1
    ELSE IF a.n > 0 THEN 1 ELSE IF a.n < 0 THEN 0 - 1 ELSE 0

Neg(a) ==
    IF a.t = "num" THEN Rat(0 - a.n, a.d)
    ELSE IF a.t = "inf" THEN NegInf
    ELSE IF a.t = "-inf" THEN PosInf
    ELSE a

Add(a, b) ==
    IF isnan(a) \/ isnan(b) THEN NaN
    ELSE IF IsNum(a) /\ IsNum(b) THEN Rat(a.n * b.d + b.n * a.d, a.d * b.d)
    ELSE IF IsNum(a) THEN b
    ELSE IF IsNum(b) THEN a
    ELSE IF a = b THEN a ELSE NaN

Sub(a, b) == Add(a, Neg(b))

Mul(a, b) ==
    IF isnan(a) \/ isnan(b) THEN NaN
    ELSE IF IsNum(a) /\ IsNum(b) THEN Rat(a.n * b.n, a.d * b.d)
    ELSE IF Sign(a) * Sign(b) = 0 THEN NaN
    ELSE IF Sign(a) * Sign(b) > 0 THEN PosInf ELSE NegInf

\* numpy float division: x/0 is inf, -inf or nan, never an exception
Div(a, b) ==
    IF isnan(a) \/ isnan(b) THEN NaN
    ELSE IF IsNum(a) /\ IsNum(b) THEN
        IF b.n = 0
        THEN (IF a.n = 0 THEN NaN ELSE IF a.n > 0 THEN PosInf ELSE NegInf)
        ELSE Rat(a.n * b.d, a.d * b.n)
    ELSE IF IsNum(a) THEN Num(0)
    ELSE IF IsNum(b) THEN (IF Sign(a) * (IF b.n < 0 THEN 0 - 1 ELSE 1) > 0
                           THEN PosInf ELSE NegInf)
    ELSE NaN

\* a < b on floats: false whenever either side is nan
Less(a, b) ==
    IF isnan(a) \/ isnan(b) THEN FALSE
    ELSE IF IsNum(a) /\ IsNum(b) THEN a.n * b.d < b.n * a.d
    ELSE IF a = b THEN FALSE
    ELSE a.t = "-inf" \/ b.t = "inf"

Leq(a, b) == Less(a, b) \/ (~isnan(a) /\ a = b)

\* Python's min(a, b): the first argument unless the second is smaller
PyMin(a, b) == IF Less(b, a) THEN b ELSE a

\* round half to even of the rational n/d (d > 0) to an integer
RoundHalfEven(n, d) ==
    LET q == n \div d
        r == n % d
    IN  IF 2 * r < d THEN q
        ELSE IF 2 * r > d THEN q + 1
        ELSE IF q % 2 = 0 THEN q ELSE q + 1

\* f"{x:.2f}" / f"{x:.1f}": the decimal string, kept as its scaled integer
Format(x, scale) ==
    IF IsNum(x)
    THEN [t |-> "str", digits |-> RoundHalfEven(x.n * scale, x.d), scale |-> scale]
    ELSE [t |-> "str", digits |-> 0, scale |-> 0, text |-> x.t]

\* Python's seq[k:] for any integer k on a sequence of length N
SliceFrom(s, k) ==
    LET N == Len(s)
        lo == IF k < 0 THEN (IF N + k < 0 THEN 0 ELSE N + k)
              ELSE (IF k > N THEN N ELSE k)
    IN  [i \in 1..(N - lo) |-> s[lo + i]]

\* Python's seq[a:b] for 0 <= a, 0 <= b
Slice(s, a, b) ==
    LET N == Len(s)
        hi == IF b > N THEN N ELSE b
        lo == IF a > hi THEN hi ELSE a
    IN  [i \in 1..(hi - lo) |-> s[lo + i]]

Values(s) == {s[i] : i \in 1..Len(s)}
SeqMin(s) == CHOOSE x \in Values(s) : \A y \in Values(s) : x <= y
SeqMax(s) == CHOOSE x \in Values(s) : \A y \in Values(s) : x >= y

\* ------------------------------------------------------------------------
\* MinMaxScaler(feature_range=(0, 1))
\* ------------------------------------------------------------------------
\* scaler.fit on a non-empty series of (integer) prices
ScalerFit(prices) == [min |-> SeqMin(prices), max |-> SeqMax(prices)]

\* a constant series has range 0, which the scaler replaces by 1
ScalerRange(sc) == IF sc.max = sc.min THEN 1 ELSE sc.max - sc.min

\* variant: a scaler that clips its output to the feature range
Transform_Clipped(sc, x) ==
    LET y == Div(Sub(x, Num(sc.min)), Num(ScalerRange(sc)))
    IN  IF Less(y, Num(0)) THEN Num(0) ELSE IF Less(Num(1), y) THEN Num(1) ELSE y

\* scaler.transform of one value: (x - min) / (max - min), not clipped
Transform(sc, x) == Div(Sub(x, Num(sc.min)), Num(ScalerRange(sc)))

\* variant: the inverse scaled by max instead of by the range
InverseTransform_ByMax(sc, y) == Add(Mul(y, Num(sc.max)), Num(sc.min))

\* scaler.inverse_transform of one value: y * (max - min) + min
InverseTransform(sc, y) == Add(Mul(y, Num(ScalerRange(sc))), Num(sc.min))

\* ------------------------------------------------------------------------
\* model_builder.create_dataset
\* ------------------------------------------------------------------------
\* values.reshape(-1, 1): a column of one-element rows
reshape(s) == [i \in 1..Len(s) |-> <<s[i]>>]

\* one iteration of the loop body: the window dataset[i:i+look_back, 0] and
\* the label dataset[i+look_back, 0] (i is the 0-based loop index)
\* variant: the window taken one row late, so that it ends on its own label
Window_Shifted(dataset, i, look_back) ==
    [k \in 1..Len(Slice(dataset, i + 1, i + look_back + 1)) |->
        Slice(dataset, i + 1, i + look_back + 1)[k][1]]

Window(dataset, i, look_back) ==
    [k \in 1..Len(Slice(dataset, i, i + look_back)) |->
        Slice(dataset, i, i + look_back)[k][1]]
Label(dataset, i, look_back) == dataset[i + look_back + 1][1]

\* range(len(dataset) - look_back - 1)
LoopCount(dataset, look_back) ==
    IF Len(dataset) - look_back - 1 > 0 THEN Len(dataset) - look_back - 1 ELSE 0

create_dataset(dataset, look_back) ==
    [dataX |-> [i \in 1..LoopCount(dataset, look_back) |->
                    Window(dataset, i - 1, look_back)],
     dataY |-> [i \in 1..LoopCount(dataset, look_back) |->
                    Label(dataset, i - 1, look_back)]]

\* ------------------------------------------------------------------------
\* The outside world: what yfinance and the trained network may answer
\* ------------------------------------------------------------------------
Raise == [kind |-> "raise", rows |-> <<>>]
Frame(rows) == [kind |-> "ok", rows |-> rows]

\* yf.download(TRAIN_TICKER, ...): an exception, no rows, or n closing prices
\* of the reference symbol
TrainClose(n, lo, step) == [i \in 1..n |-> lo + step * ((i * 7) % 11)]
TrainDownloads ==
    {Raise, Frame(<<>>),
     Frame(TrainClose(LOOKBACK_DAYS + 17, 100, 10)),
     Frame(TrainClose(LOOKBACK_DAYS + 18, 100, 10)),
     Frame(TrainClose(LOOKBACK_DAYS + 20, 50, 20))}

\* the <str:ticker> of the URL ("" stands for a missing one)
Tickers == {"", "aapl", "MSFT", "CL=F"}

\* str.upper on the tickers
upper(s) == IF s = "aapl" THEN "AAPL" ELSE s

\* the closing prices the data source holds for a symbol, n rows of them:
\* AAPL within 100..200, MSFT within 500..518, and CL=F, a futures contract
\* that settles below zero on some days, within -35..15
Close(sym, n) ==
    [i \in 1..n |->
        IF upper(sym) = "AAPL" THEN 100 + 10 * ((i * 7) % 11)
        ELSE IF upper(sym) = "MSFT" THEN 500 + 3 * ((i * 5) % 7)
        ELSE (0 - 35) + 5 * ((i * 7) % 11)]

\* the numbers of rows a price-history fetch may return
HistLens ==
    {0, 1, LOOKBACK_DAYS - 1, LOOKBACK_DAYS, LOOKBACK_DAYS + 1,
     MA_SHORT, MA_LONG, CHART_DAYS}
    \cup ((CHART_DAYS + 1)..(CHART_DAYS + MaxPad))

\* stock.history(start, end): an exception, or n rows
HistoryResults(sym) == {Raise} \cup {Frame(Close(sym, n)) : n \in HistLens}

\* yf.Ticker("INR=X").history(period="1d"): an exception, no rows, or a rate
RateResults == {Raise, Frame(<<>>), Frame(<<84>>)}

\* model.predict(X_test): an exception, or one normalized value
PredictResults(X) ==
    {Raise}
    \cup {Frame(<<Num(k)>>) : k \in (0 - MaxPred)..MaxPred}
    \cup {Frame(<<Rat(1, 2)>>), Frame(<<X[1][Len(X[1])]>>)}

\* ------------------------------------------------------------------------
\* State
\* ------------------------------------------------------------------------
VARIABLES
    model_file,     \* stock_predictor.keras exists
    scaler_file,    \* contents of scaler.gz (None: no file)
    started,        \* the server process has imported views.py
    model,          \* views.model
    scaler,         \* views.scaler
    view,           \* handler of the request in progress
    pc,             \* its position
    ticker_symbol, inr_data, exchange_rate, hist,
    ma_100_series, ma_200_series, X_test, pred_scaled,
    calls,          \* calls made to yfinance and the network, in order
    response,       \* the Response returned
    dataset, look_back, \* arguments of a call of create_dataset
    dataX, dataY,   \* what it returned
    cd_pc           \* "none", "called" or "returned"

files == <<model_file, scaler_file>>
globals == <<started, model, scaler>>
locals == <<ticker_symbol, inr_data, exchange_rate, hist, ma_100_series,
            ma_200_series, X_test, pred_scaled>>
cd == <<dataset, look_back, dataX, dataY, cd_pc>>
vars == <<files, globals, view, pc, locals, calls, response, cd>>

Init ==
    /\ model_file = FALSE
    /\ scaler_file = None
    /\ started = FALSE
    /\ model = None
    /\ scaler = None
    /\ view = "none"
    /\ pc = "idle"
    /\ ticker_symbol = ""
    /\ inr_data = None
    /\ exchange_rate = None
    /\ hist = None
    /\ ma_100_series = <<>>
    /\ ma_200_series = <<>>
    /\ X_test = <<>>
    /\ pred_scaled = <<>>
    /\ calls = <<>>
    /\ response = None
    /\ dataset = <<>>
    /\ look_back = LOOKBACK_DAYS
    /\ dataX = <<>>
    /\ dataY = <<>>
    /\ cd_pc = "none"

\* ------------------------------------------------------------------------
\* model_builder.py
\* ------------------------------------------------------------------------
\* int(len(scaled_data) * 0.8)
TrainSize(n) == (n * 8) \div 10

\* the script reaches model.save / joblib.dump: the download gave rows and
\* both create_dataset calls went through their loop at least once, so that
\* X_train and X_test have the second dimension the reshape reads
TrainingCompletes(data) ==
    /\ data.kind = "ok"
    /\ Len(data.rows) > 0
    /\ LET train_size == TrainSize(Len(data.rows))
           train_data == Slice(reshape(data.rows), 0, train_size)
           test_data == SliceFrom(reshape(data.rows), train_size - LOOKBACK_DAYS)
       IN  /\ LoopCount(train_data, LOOKBACK_DAYS) > 0
           /\ LoopCount(test_data, LOOKBACK_DAYS) > 0

\* one run of the script, from the download to the two saved files
RunModelBuilder ==
    /\ \E data \in TrainDownloads :
        IF TrainingCompletes(data)
        THEN /\ model_file' = TRUE
             /\ scaler_file' = ScalerFit(data.rows)
        ELSE UNCHANGED <<model_file, scaler_file>>
    /\ UNCHANGED <<cd, globals, view, pc, locals, calls, response>>

\* ------------------------------------------------------------------------
\* views.py, module level: load the model and the scaler
\* ------------------------------------------------------------------------
LoadedModel == [t |-> "keras"]

StartServer ==
    /\ ~started
    /\ started' = TRUE
    /\ IF model_file /\ scaler_file # None
       THEN /\ model' = LoadedModel
            /\ scaler' = scaler_file
       ELSE /\ model' = None
            /\ scaler' = None
    /\ UNCHANGED <<cd, files, view, pc, locals, calls, response>>

\* ------------------------------------------------------------------------
\* views.py: helpers shared by the two handlers
\* ------------------------------------------------------------------------
Error(code, message) == [status |-> code, data |-> [error |-> message]]

\* variant: no conversion (a rate of 1) when the fetch fails
ExchangeRate_Unconverted(inr) ==
    IF inr.kind = "ok" /\ Len(inr.rows) > 0
    THEN Num(inr.rows[Len(inr.rows)])
    ELSE Num(1)

\* exchange_rate after the try/except around the INR=X fetch
ExchangeRate(inr) ==
    IF inr.kind = "ok" /\ Len(inr.rows) > 0
    THEN Num(inr.rows[Len(inr.rows)])
    ELSE Num(FALLBACK_RATE)

\* variant: the emptiness check left out
hist_empty_Unchecked(h) == FALSE

\* hist.empty
hist_empty(h) == Len(h.rows) = 0

\* hist['Close'] as floats
CloseSeries(h) == [i \in 1..Len(h.rows) |-> Num(h.rows[i])]

\* hist.index, a row's date being its day number; strftime('%Y-%m-%d')
strftime(day) == [t |-> "date", day |-> day]
Index(h) == [i \in 1..Len(h.rows) |-> i]

\* the running totals base+s[lo], base+s[lo]+s[lo+1], ... up to s[hi]
RECURSIVE RunningTotals(_, _, _, _)
RunningTotals(s, lo, hi, base) ==
    IF lo > hi THEN <<>>
    ELSE IF lo = hi THEN <<base + s[lo]>>
    ELSE LET mid == (lo + hi) \div 2
             left == RunningTotals(s, lo, mid, base)
         IN  left \o RunningTotals(s, mid + 1, hi, left[Len(left)])

\* hist['Close'].rolling(window=w).mean(): nan until w rows are there, then
\* the mean of rows i-w+1..i (their sum is a difference of running totals)
rolling_mean(h, w) ==
    LET total == RunningTotals(h.rows, 1, Len(h.rows), 0)
    IN  [i \in 1..Len(h.rows) |->
            IF i < w THEN NaN
            ELSE Rat(total[i] - (IF i = w THEN 0 ELSE total[i - w]), w)]

\* series.iloc[-k:]
iloc_last(s, k) == SliceFrom(s, 0 - k)

\* variant: an undefined value charted as 0 * rate
format_series_for_json_Zero(series, rate) ==
    [i \in 1..Len(series) |->
        IF ~isnan(series[i]) THEN Mul(series[i], rate) ELSE Mul(Num(0), rate)]

format_series_for_json(series, rate) ==
    [i \in 1..Len(series) |->
        IF ~isnan(series[i]) THEN Mul(series[i], rate) ELSE None]

\* ------------------------------------------------------------------------
\* StockPredictionView.get
\* ------------------------------------------------------------------------
\* the stat-card value of a moving average: its last point, 0 when nan
StatCard(series) ==
    IF ~isnan(series[Len(series)]) THEN series[Len(series)] ELSE Num(0)

LastClose(h) == Num(h.rows[Len(h.rows)])

\* scaler.transform(data.reshape(-1, 1))
scaled_data(sc, h) == [i \in 1..Len(h.rows) |-> Transform(sc, Num(h.rows[i]))]

\* variant: the first 60 rows instead of the last
InferenceInput_Head(sc, h) == <<Slice(scaled_data(sc, h), 0, LOOKBACK_DAYS)>>

\* X_test: the one window scaled_data[-60:, 0]
InferenceInput(sc, h) == <<iloc_last(scaled_data(sc, h), LOOKBACK_DAYS)>>

\* scaler.inverse_transform(pred_scaled)[0][0]
Prediction(sc, pred) == InverseTransform(sc, pred[1])

\* variant: a tie counted as a rise
Trend_TieUp(prediction, last_close) ==
    IF Leq(last_close, prediction) THEN "Up" ELSE "Down"

Trend(prediction, last_close) ==
    IF Less(last_close, prediction) THEN "Up" ELSE "Down"

\* variant: the cap left out
Confidence_Uncapped(prediction, last_close) ==
    IF Less(last_close, prediction)
    THEN Add(Num(CONF_BASE),
             Mul(Mul(Div(Sub(prediction, last_close), last_close),
                     Num(100)), Num(2)))
    ELSE Add(Num(CONF_BASE),
             Mul(Mul(Div(Sub(last_close, prediction), last_close),
                     Num(100)), Num(2)))

Confidence(prediction, last_close) ==
    IF Less(last_close, prediction)
    THEN PyMin(Num(CONF_CAP),
               Add(Num(CONF_BASE),
                   Mul(Mul(Div(Sub(prediction, last_close), last_close),
                           Num(100)), Num(2))))
    ELSE PyMin(Num(CONF_CAP),
               Add(Num(CONF_BASE),
                   Mul(Mul(Div(Sub(last_close, prediction), last_close),
                           Num(100)), Num(2))))

PredictChart(h, ma100, ma200, rate) ==
    [labels |-> [i \in 1..Len(iloc_last(Index(h), CHART_DAYS)) |->
                    strftime(iloc_last(Index(h), CHART_DAYS)[i])],
     close_prices |->
        format_series_for_json(iloc_last(CloseSeries(h), CHART_DAYS), rate),
     ma_100 |-> format_series_for_json(iloc_last(ma100, CHART_DAYS), rate),
     ma_200 |-> format_series_for_json(iloc_last(ma200, CHART_DAYS), rate)]

\* response_data, returned with status 200
PredictResponse(ticker, sc, h, ma100, ma200, pred, rate, chart_data) ==
    LET last_close == LastClose(h)
        prediction == Prediction(sc, pred)
    IN  [status |-> HTTP_200_OK,
         data |->
           [ticker |-> upper(ticker),
            last_close_inr |-> Format(Mul(last_close, rate), 100),
            predicted_next_close_inr |-> Format(Mul(prediction, rate), 100),
            moving_average_100d_inr |-> Format(Mul(StatCard(ma100), rate), 100),
            moving_average_200d_inr |-> Format(Mul(StatCard(ma200), rate), 100),
            trend_prediction |-> Trend(prediction, last_close),
            confidence_percent |-> Format(Confidence(prediction, last_close), 10),
            chart_data |-> chart_data]]

Call(fn, arg) == [fn |-> fn, arg |-> arg]

ResetLocals ==
    /\ inr_data' = None
    /\ exchange_rate' = None
    /\ hist' = None
    /\ ma_100_series' = <<>>
    /\ ma_200_series' = <<>>
    /\ X_test' = <<>>
    /\ pred_scaled' = <<>>

\* variant: the readiness check left out
Ready_Unchecked(m, sc) == TRUE

\* the model and the scaler both loaded ("not model or not scaler" is false)
Ready(m, sc) == m # None /\ sc # None

\* a request arrives: the ticker check and the readiness check
P_Begin ==
    /\ started
    /\ pc \in {"idle", "done"}
    /\ \E ticker \in Tickers :
        /\ view' = "predict"
        /\ ticker_symbol' = ticker
        /\ calls' = <<>>
        /\ ResetLocals
        /\ IF ticker = ""
           THEN /\ response' = Error(HTTP_400_BAD_REQUEST, "No ticker symbol provided.")
                /\ pc' = "done"
           ELSE IF ~Ready(model, scaler)
           THEN /\ response' = Error(HTTP_500_INTERNAL_SERVER_ERROR,
                                     "Model or scaler not loaded. Run model_builder.py")
                /\ pc' = "done"
           ELSE /\ response' = None
                /\ pc' = "rate"
    /\ UNCHANGED <<cd, files, globals>>

\* inr_ticker.history(period="1d") inside its own try/except
P_FetchRate ==
    /\ view = "predict" /\ pc = "rate"
    /\ \E inr \in RateResults :
        /\ calls' = Append(calls, Call("history", "INR=X"))
        /\ inr_data' = inr
        /\ exchange_rate' = ExchangeRate(inr)
    /\ pc' = "hist"
    /\ UNCHANGED <<cd, files, globals, view, ticker_symbol, hist, ma_100_series,
                   ma_200_series, X_test, pred_scaled, response>>

\* stock.history(start, end), then everything up to the call of the network
P_FetchHistory ==
    /\ view = "predict" /\ pc = "hist"
    /\ calls' = Append(calls, Call("history", ticker_symbol))
    /\ \E h \in HistoryResults(ticker_symbol) :
        IF h.kind = "raise"
        THEN /\ response' = Error(HTTP_500_INTERNAL_SERVER_ERROR,
                                  "An unexpected error occurred")
             /\ pc' = "done"
             /\ UNCHANGED <<hist, ma_100_series, ma_200_series, X_test>>
        ELSE IF hist_empty(h)
        THEN /\ hist' = h
             /\ response' = Error(HTTP_404_NOT_FOUND, "Invalid ticker or no data found")
             /\ pc' = "done"
             /\ UNCHANGED <<ma_100_series, ma_200_series, X_test>>
        ELSE /\ hist' = h
             /\ ma_100_series' = rolling_mean(h, MA_SHORT)
             /\ ma_200_series' = rolling_mean(h, MA_LONG)
             /\ IF Len(h.rows) < LOOKBACK_DAYS
                THEN /\ response' = Error(HTTP_400_BAD_REQUEST,
                            "Not enough historical data to make a prediction (need at least 60 days).")
                     /\ pc' = "done"
                     /\ UNCHANGED X_test
                ELSE /\ X_test' = InferenceInput(scaler, h)
                     /\ pc' = "predict"
                     /\ UNCHANGED response
    /\ UNCHANGED <<cd, files, globals, view, ticker_symbol, inr_data, exchange_rate,
                   pred_scaled>>

\* model.predict(X_test), then everything up to the Response
P_Predict ==
    /\ view = "predict" /\ pc = "predict"
    /\ calls' = Append(calls, Call("predict", X_test))
    /\ LET chart_data == PredictChart(hist, ma_100_series, ma_200_series,
                                      exchange_rate)
       IN  \E out \in PredictResults(X_test) :
            IF out.kind = "raise"
            THEN /\ response' = Error(HTTP_500_INTERNAL_SERVER_ERROR,
                                      "An unexpected error occurred")
                 /\ UNCHANGED pred_scaled
            ELSE /\ pred_scaled' = out.rows
                 /\ response' = PredictResponse(ticker_symbol, scaler, hist,
                                    ma_100_series, ma_200_series, out.rows,
                                    exchange_rate, chart_data)
    /\ pc' = "done"
    /\ UNCHANGED <<cd, files, globals, view, ticker_symbol, inr_data, exchange_rate,
                   hist, ma_100_series, ma_200_series, X_test>>

\* ------------------------------------------------------------------------
\* HistoricalChartView.get
\* ------------------------------------------------------------------------
HistoricalChart(h, ma100, ma200, rate) ==
    [status |-> HTTP_200_OK,
     data |-> [labels |-> [i \in 1..Len(h.rows) |-> strftime(Index(h)[i])],
               ma_100 |-> format_series_for_json(ma100, rate),
               ma_200 |-> format_series_for_json(ma200, rate)]]

H_Begin ==
    /\ started
    /\ pc \in {"idle", "done"}
    /\ \E ticker \in Tickers :
        /\ view' = "historical"
        /\ ticker_symbol' = ticker
        /\ calls' = <<>>
        /\ ResetLocals
        /\ IF ticker = ""
           THEN /\ response' = Error(HTTP_400_BAD_REQUEST, "No ticker symbol provided.")
                /\ pc' = "done"
           ELSE /\ response' = None
                /\ pc' = "rate"
    /\ UNCHANGED <<cd, files, globals>>

H_FetchRate ==
    /\ view = "historical" /\ pc = "rate"
    /\ \E inr \in RateResults :
        /\ calls' = Append(calls, Call("history", "INR=X"))
        /\ inr_data' = inr
        /\ exchange_rate' = ExchangeRate(inr)
    /\ pc' = "hist"
    /\ UNCHANGED <<cd, files, globals, view, ticker_symbol, hist, ma_100_series,
                   ma_200_series, X_test, pred_scaled, response>>

H_FetchHistory ==
    /\ view = "historical" /\ pc = "hist"
    /\ calls' = Append(calls, Call("history", ticker_symbol))
    /\ \E h \in HistoryResults(ticker_symbol) :
        IF h.kind = "raise"
        THEN /\ response' = Error(HTTP_500_INTERNAL_SERVER_ERROR,
                                  "An unexpected error occurred")
             /\ UNCHANGED <<hist, ma_100_series, ma_200_series>>
        ELSE IF hist_empty(h)
        THEN /\ hist' = h
             /\ response' = Error(HTTP_404_NOT_FOUND,
                                  "Invalid ticker or no data found for 10-year period")
             /\ UNCHANGED <<ma_100_series, ma_200_series>>
        ELSE /\ hist' = h
             /\ ma_100_series' = rolling_mean(h, MA_SHORT)
             /\ ma_200_series' = rolling_mean(h, MA_LONG)
             /\ response' = HistoricalChart(h, ma_100_series', ma_200_series',
                                            exchange_rate)
    /\ pc' = "done"
    /\ UNCHANGED <<cd, files, globals, view, ticker_symbol, inr_data, exchange_rate,
                   X_test, pred_scaled>>

Next ==
    \/ RunModelBuilder
    \/ StartServer
    \/ P_Begin
    \/ P_FetchRate
    \/ P_FetchHistory
    \/ P_Predict
    \/ H_Begin
    \/ H_FetchRate
    \/ H_FetchHistory

Spec == Init /\ [][Next]_vars

\* ------------------------------------------------------------------------
\* create_dataset called on its own, on any series and any look_back
\* ------------------------------------------------------------------------
\* a column of n values, rising (10, 20, ...) or falling (99, 98, ...)
Column(n, rising) == [i \in 1..n |-> <<IF rising THEN 10 * i ELSE 100 - i>>]

DatasetInputs ==
    {<<Column(n, r), lb>> : n \in 0..MaxLen, r \in BOOLEAN, lb \in 0..MaxLook}
    \cup {<<Column(LOOKBACK_DAYS + n, r), LOOKBACK_DAYS>> :
            n \in 0..MaxLook, r \in BOOLEAN}

InitDataset ==
    /\ model_file = FALSE /\ scaler_file = None
    /\ started = FALSE /\ model = None /\ scaler = None
    /\ view = "none" /\ pc = "idle" /\ ticker_symbol = ""
    /\ inr_data = None /\ exchange_rate = None /\ hist = None
    /\ ma_100_series = <<>> /\ ma_200_series = <<>> /\ X_test = <<>>
    /\ pred_scaled = <<>> /\ calls = <<>> /\ response = None
    /\ \E in \in DatasetInputs : dataset = in[1] /\ look_back = in[2]
    /\ dataX = <<>>
    /\ dataY = <<>>
    /\ cd_pc = "called"

CreateDataset ==
    /\ cd_pc = "called"
    /\ dataX' = create_dataset(dataset, look_back).dataX
    /\ dataY' = create_dataset(dataset, look_back).dataY
    /\ cd_pc' = "returned"
    /\ UNCHANGED <<dataset, look_back, files, globals, view, pc, locals, calls,
                   response>>

NextDataset == CreateDataset

SpecDataset == InitDataset /\ [][NextDataset]_vars

\* ------------------------------------------------------------------------
\* Claims
\* ------------------------------------------------------------------------
\* the functions called so far by the request in progress
Called(fn) == {i \in 1..Len(calls) : calls[i].fn = fn}

PredictInFlight == view = "predict" /\ pc # "idle" /\ ticker_symbol # ""

\* a predict request with a ticker that finds the model or the scaler not
\* loaded has ended with 500 and has made no call
C1_Gate ==
    (PredictInFlight /\ (model = None \/ scaler = None)) =>
        /\ pc = "done"
        /\ response.status = HTTP_500_INTERNAL_SERVER_ERROR
        /\ calls = <<>>
\* a server that started without the model or the scaler stays without
C1_Stays ==
    (started /\ (model = None \/ scaler = None)) =>
        (model' = None \/ scaler' = None)

\* C1 (readiness gate): a predict request with a ticker that finds the model
\* or the scaler not loaded has ended with status 500, having called neither
\* the data source (no conversion-rate fetch, no price-history fetch) nor the
\* predictor; and no step of the program loads the model or the scaler once
\* the server has started without them, so every later predict request of
\* the process ends with 500 too.
C1_ReadinessGate == []C1_Gate /\ [][C1_Stays]_vars

\* C1 witness: the server started without its artifacts, the training script
\* has since written them, and a predict request was answered 500
C1_Witness ==
    /\ PredictInFlight /\ pc = "done"
    /\ model = None /\ model_file /\ scaler_file # None
    /\ response.status = HTTP_500_INTERNAL_SERVER_ERROR

\* a predict request that got a non-empty price history
HasHistory == hist # None /\ Len(hist.rows) > 0
Rows == Len(hist.rows)
SuccessfulPredict ==
    view = "predict" /\ pc = "done" /\ response.status = HTTP_200_OK

\* (x - min) / (max - min), written out for a price x and the loaded scaler
Normalized(x) == Rat(x - scaler.min, scaler.max - scaler.min)

\* C2 (inference window): a predict request whose history has N >= 1 rows
\* ends with status 400 without calling the predictor when N < 60; when
\* N >= 60 the predictor is called exactly once by the time the request is
\* done, with one window of exactly 60 values, the normalized last 60
\* closing prices in their order.
C2_InferenceWindow ==
    (PredictInFlight /\ HasHistory) =>
        IF Rows < 60
        THEN /\ pc = "done"
             /\ response.status = HTTP_400_BAD_REQUEST
             /\ Called("predict") = {}
        ELSE /\ pc \in {"predict", "done"}
             /\ Cardinality(Called("predict")) = (IF pc = "done" THEN 1 ELSE 0)
             /\ \A c \in Called("predict") :
                    /\ Len(calls[c].arg) = 1
                    /\ Len(calls[c].arg[1]) = 60
                    /\ \A j \in 1..60 :
                        calls[c].arg[1][j] = Normalized(hist.rows[Rows - 60 + j])

\* C2 witness: the predictor was called on a history longer than the window
C2_Witness ==
    /\ SuccessfulPredict /\ Rows > 60
    /\ Called("predict") # {}

\* C3 (empty history): on both endpoints a request whose price-history fetch
\* returned zero rows is answered 404, with no moving average computed, no
\* window built and the predictor not called.
C3_EmptyHistoryNotFound ==
    (view \in {"predict", "historical"} /\ hist # None /\ Len(hist.rows) = 0) =>
        /\ pc = "done"
        /\ response.status = 404
        /\ ma_100_series = <<>> /\ ma_200_series = <<>>
        /\ X_test = <<>>
        /\ Called("predict") = {}

\* C3 witness: a predict request with the model loaded got zero rows
C3_Witness ==
    /\ view = "predict" /\ pc = "done" /\ model # None
    /\ hist # None /\ Len(hist.rows) = 0
    /\ response.status = 404

\* the response a finished request must carry given its inputs, had the
\* conversion rate been `rate`
OutcomeWith(rate) ==
    IF hist = None THEN response.status = HTTP_500_INTERNAL_SERVER_ERROR
    ELSE IF Len(hist.rows) = 0 THEN response.status = HTTP_404_NOT_FOUND
    ELSE IF view = "historical"
    THEN response = HistoricalChart(hist, rolling_mean(hist, MA_SHORT),
                                    rolling_mean(hist, MA_LONG), rate)
    ELSE IF Len(hist.rows) < LOOKBACK_DAYS
    THEN response.status = HTTP_400_BAD_REQUEST
    ELSE IF pred_scaled = <<>>
    THEN response.status = HTTP_500_INTERNAL_SERVER_ERROR
    ELSE response = PredictResponse(ticker_symbol, scaler, hist,
                        rolling_mean(hist, MA_SHORT), rolling_mean(hist, MA_LONG),
                        pred_scaled, rate,
                        PredictChart(hist, rolling_mean(hist, MA_SHORT),
                                     rolling_mean(hist, MA_LONG), rate))

RateFetchFailed ==
    inr_data # None /\ (inr_data.kind = "raise" \/ Len(inr_data.rows) = 0)

\* C4 (conversion-rate fallback): on both endpoints, when the conversion-rate
\* fetch raised or returned nothing, the request goes on with the rate 83 and
\* ends with the very response a fetched rate of 83 gives.
C4_RateFallback ==
    RateFetchFailed =>
        /\ pc \in {"hist", "predict", "done"}
        /\ exchange_rate = [t |-> "num", n |-> 83, d |-> 1]
        /\ Called("history") # {}
        /\ pc = "done" => OutcomeWith([t |-> "num", n |-> 83, d |-> 1])

\* C4 witness: both endpoints' success after a failed rate fetch; this one is
\* the predict endpoint answering 200 after the fetch raised
C4_Witness ==
    /\ SuccessfulPredict
    /\ inr_data # None /\ inr_data.kind = "raise"

ConfidenceOf == Confidence(Prediction(scaler, pred_scaled), LastClose(hist))
InBounds(c) == Leq(Num(50), c) /\ Leq(c, Num(98))

\* C5 as claimed: the confidence of every successful predict response lies
\* in [50, 98], for every prediction and every last close.
C5_Original == SuccessfulPredict => InBounds(ConfidenceOf)

\* C5 (confidence bound, amended): the confidence of every successful predict
\* response whose last close is not negative lies in [50, 98], whatever the
\* prediction (above, equal to or below the last close, negative included);
\* the reported confidence_percent lies in 50.0..98.0.
C5_ConfidenceBound ==
    (SuccessfulPredict /\ hist.rows[Rows] >= 0) =>
        /\ InBounds(ConfidenceOf)
        /\ response.data.confidence_percent.digits \in 500..980

\* C5 witness: a positive last close with a negative prediction, capped at 98
C5_Witness ==
    /\ SuccessfulPredict /\ hist.rows[Rows] > 0
    /\ Less(Prediction(scaler, pred_scaled), Num(0))
    /\ ConfidenceOf = Num(98)

\* C6 (trend): the trend of every successful predict response is "Up" when
\* the denormalized prediction (pred * (max - min) + min, conversion rate not
\* applied) is strictly above the last close, and "Down" in every other case.
C6_Trend ==
    SuccessfulPredict =>
        LET p == pred_scaled[1]
            up == p.n * (scaler.max - scaler.min) + scaler.min * p.d
                    > hist.rows[Rows] * p.d
        IN  response.data.trend_prediction = (IF up THEN "Up" ELSE "Down")

\* C6 witness: the tie, prediction equal to the last close, reported "Down"
C6_Witness ==
    /\ SuccessfulPredict
    /\ Prediction(scaler, pred_scaled) = LastClose(hist)
    /\ response.data.trend_prediction = "Down"

\* x * rate, written out for a number x
Converted(x, rate) == Rat(x.n * rate.n, x.d * rate.d)

\* the chart series `out` is the moving average `ma` (window w) of the rows
\* first..Rows, converted: null below row w, ma * rate from row w on
MovingAverageConverted(out, ma, w, first) ==
    /\ Len(out) = Rows - first + 1
    /\ \A i \in 1..Len(out) :
        LET row == first + i - 1
        IN  IF row < w
            THEN out[i] = None
            ELSE out[i] # None /\ out[i] = Converted(ma[row], exchange_rate)

\* C7 (chart series): on a successful predict response labels, close_prices,
\* ma_100 and ma_200 have min(N, 300) entries, for the last rows in their
\* order; on a successful historical-chart response labels, ma_100 and
\* ma_200 have N entries.  A charted close is close * rate; a charted moving
\* average is null (not 0, not 0 * rate) at a row that has fewer than 100
\* (200) rows up to and including it, and the average * rate at every other.
C7_ChartSeries ==
    /\ SuccessfulPredict =>
        LET chart == response.data.chart_data
            first == IF Rows > 300 THEN Rows - 300 + 1 ELSE 1
        IN  /\ Len(chart.labels) = Rows - first + 1
            /\ Len(chart.close_prices) = Rows - first + 1
            /\ \A i \in 1..Len(chart.labels) :
                /\ chart.labels[i].day = first + i - 1
                /\ chart.close_prices[i] =
                     Converted(Num(hist.rows[first + i - 1]), exchange_rate)
            /\ MovingAverageConverted(chart.ma_100, ma_100_series, 100, first)
            /\ MovingAverageConverted(chart.ma_200, ma_200_series, 200, first)
    /\ (view = "historical" /\ pc = "done" /\ response.status = HTTP_200_OK) =>
        /\ Len(response.data.labels) = Rows
        /\ \A i \in 1..Rows : response.data.labels[i].day = i
        /\ MovingAverageConverted(response.data.ma_100, ma_100_series, 100, 1)
        /\ MovingAverageConverted(response.data.ma_200, ma_200_series, 200, 1)

\* C7 witness: a predict chart cut to 300 of 301 rows that holds both null
\* and converted moving averages
C7_Witness ==
    /\ SuccessfulPredict /\ Rows > 300
    /\ Len(response.data.chart_data.ma_100) = 300
    /\ response.data.chart_data.ma_100[1] = None
    /\ response.data.chart_data.ma_100[300] # None

ReachedInference == PredictInFlight /\ X_test # <<>>
InUnit(y) == Leq(Num(0), y) /\ Leq(y, Num(1))

\* C8 as claimed: every value of every window handed to the predictor lies
\* in [0, 1], whatever the ticker.
C8_Original ==
    ReachedInference => \A j \in 1..Len(X_test[1]) : InUnit(X_test[1][j])

\* a value of the window lies in [0, 1] exactly when its closing price lies
\* within [min, max] of the loaded scaler
C8_Range ==
    ReachedInference =>
        \A j \in 1..Len(X_test[1]) :
            LET x == hist.rows[Rows - Len(X_test[1]) + j]
            IN  InUnit(X_test[1][j]) <=> (scaler.min <= x /\ x <= scaler.max)
\* no step changes the scaler of a started server
C8_NoRefit == started => scaler' = scaler

\* C8 (normalized range, amended): on every predict request that reaches
\* inference, a value of the window handed to the predictor lies in [0, 1]
\* exactly when its closing price lies within the training-time [min, max]
\* of the loaded scaler; the scaler is never refitted while serving.
C8_NormalizedRange == []C8_Range /\ [][C8_NoRefit]_vars

\* C8 witness: a window entirely inside [0, 1] reaching the predictor
C8_Witness ==
    /\ ReachedInference /\ pc = "done"
    /\ \A j \in 1..Len(X_test[1]) : InUnit(X_test[1][j])

\* the scaler states the training script can persist
PersistedScalers == {[min |-> 100, max |-> 200], [min |-> 50, max |-> 250]}

\* C9 (round trip): with the scaler loaded, inverse_transform(transform(x))
\* is x for every closing price x of the request, inside or outside
\* [min, max]; the scaler is a state the training script persisted, with
\* max > min; and a prediction equal to the window's last value comes back
\* as the last close.
C9_RoundTrip ==
    /\ (started /\ scaler # None) =>
        /\ scaler \in PersistedScalers
        /\ scaler.max > scaler.min
    /\ ReachedInference =>
        \A i \in 1..Rows :
            InverseTransform(scaler, Transform(scaler, Num(hist.rows[i])))
                = Num(hist.rows[i])
    /\ (SuccessfulPredict /\ pred_scaled[1] = X_test[1][LOOKBACK_DAYS]) =>
        response.data.predicted_next_close_inr = response.data.last_close_inr

\* C9 witness: the round trip through the response, on prices above max
C9_Witness ==
    /\ SuccessfulPredict
    /\ pred_scaled[1] = X_test[1][LOOKBACK_DAYS]
    /\ hist.rows[Rows] > scaler.max

\* what create_dataset returned: the pairs, in increasing i
C10_Pairs ==
    cd_pc = "returned" =>
        LET N == Len(dataset)
            L == look_back
        IN  /\ Len(dataX) = (IF N > L + 1 THEN N - L - 1 ELSE 0)
            /\ Len(dataY) = Len(dataX)
            /\ \A i \in 0..(Len(dataX) - 1) :
                /\ Len(dataX[i + 1]) = L
                /\ \A k \in 1..L : dataX[i + 1][k] = dataset[i + k][1]
                /\ dataY[i + 1] = dataset[i + L + 1][1]

\* C10 (training pairs): create_dataset on N rows with look_back L returns
\* N-L-1 pairs when N > L+1 and none when N <= L+1; pair i (from 0, in
\* increasing i) is the L contiguous values dataset[i..i+L-1] with the label
\* dataset[i+L], the value right after the window; the dataset is left as it
\* was.
C10_TrainingPairs == []C10_Pairs /\ [][dataset' = dataset]_vars

\* C10 witness: several pairs returned for a look_back of 60
C10_Witness ==
    /\ cd_pc = "returned" /\ look_back = LOOKBACK_DAYS
    /\ Len(dataX) > 1

====
